---- MODULE Spec2Model ----
(***************************************************************************)
(* The weather cache subsystem of nothingtodo (src/unnamed/part_000, the   *)
(* third `package main` of that file, lines 180-688): the retrying         *)
(* fetcher, the RWMutex-guarded in-memory cache, its persistence through a *)
(* temporary file and a rename, the startup load, the periodic updater and *)
(* the HTTP handlers that read the cache.                                  *)
(*                                                                         *)
(* Threads: "main" (func main: load, bootstrap cycle, then the server),    *)
(* "updater" (go startWeatherUpdater) and the request handlers 1..N.       *)
(* Every goroutine has a program counter; one action is one step of the    *)
(* code between two points where another goroutine can interleave.         *)
(***************************************************************************)
EXTENDS Integers, Sequences, FiniteSets, TLC

\* ------------------------------------------------------------- bounds
\* The clock runs from StartTime to MaxTime.
MaxTime == 7
\* Number of concurrent request handlers.
NumHandlers == 2
\* Number of times the process may be killed and started again.
MaxRestarts == 1
\* Number of lines of the file that the first write puts on disk.
ChunkLen == 3
\* Number of segments of a request's path.
MaxPathLen == 2

\* ------------------------------------------------- program constants
\* weatherUpdateInterval (30 minutes), in clock units.
weatherUpdateInterval == 2
maxRetries == 3
\* http.StatusOK
StatusOK == 200
\* The timeout main passes to gracefulShutdown, in seconds.
shutdownTimeout == 10

weatherLocation == "Sleman"

\* The clock value at process start of the first run.
StartTime == 3

Threads == {"main", "updater"}
Handlers == 1..NumHandlers

\* -------------------------------------------------------------- time
\* A time.Time: the wall-clock instant and whether it carries a monotonic
\* reading (time.Now() does, a parsed or zero Time does not).
ZeroTime == [wall |-> 0, mono |-> FALSE]
TimeNow(clock) == [wall |-> clock, mono |-> TRUE]
\* time.Since(t), in clock units.
Since(clock, t) == clock - t.wall

\* ----------------------------------------------------------- readings
\* The zero value of the weatherCache struct.
ZeroCache ==
  [Location |-> "", Temperature |-> 0, Condition |-> "", Humidity |-> 0,
   Updated |-> ZeroTime]

\* The four values getWeather returns.
Four(c) ==
  [location |-> c.Location, temperature |-> c.Temperature,
   condition |-> c.Condition, humidity |-> c.Humidity]

\* ------------------------------------------------- the cache file (JSON)
\* One line of the indented JSON object json.MarshalIndent writes: a brace
\* or one "key": value member (s for a string value, n for a number).
Tok(k, s, n) == [k |-> k, s |-> s, n |-> n]
OpenBrace == Tok("{", "", 0)
CloseBrace == Tok("}", "", 0)

\* (Variant: a layout that drops the low digits of the instant.)
FormatTimeCoarse(t) == t.wall - (t.wall % 2)
\* time.Time's MarshalJSON: the RFC 3339 text of the wall-clock instant, to
\* the nanosecond; the monotonic reading is not written.
FormatTime(t) == t.wall
\* time.Time's UnmarshalJSON: the instant, with no monotonic reading.
ParseTime(n) == [wall |-> n, mono |-> FALSE]

\* (Variant: temperature and humidity written under each other's key.)
MarshalSwapped(c) ==
  << OpenBrace,
     Tok("location", c.Location, 0),
     Tok("temperature", "", c.Humidity),
     Tok("condition", c.Condition, 0),
     Tok("humidity", "", c.Temperature),
     Tok("updated", "", FormatTime(c.Updated)),
     CloseBrace >>
\* json.MarshalIndent of the anonymous struct of saveWeatherCache.
Marshal(c) ==
  << OpenBrace,
     Tok("location", c.Location, 0),
     Tok("temperature", "", c.Temperature),
     Tok("condition", c.Condition, 0),
     Tok("humidity", "", c.Humidity),
     Tok("updated", "", FormatTime(c.Updated)),
     CloseBrace >>

\* json.Unmarshal first scans the whole input (checkValid): the text must be
\* one complete object, so no proper prefix of a written file is valid.
ValidJSON(data) ==
  /\ Len(data) >= 2
  /\ data[1] = OpenBrace
  /\ data[Len(data)] = CloseBrace
  /\ \A i \in 2..(Len(data) - 1) : data[i].k \notin {"{", "}"}

\* Decoding one member into the struct: known keys set their field, any
\* other key is skipped.
DecodeMember(c, tok) ==
  CASE tok.k = "location" -> [c EXCEPT !.Location = tok.s]
    [] tok.k = "temperature" -> [c EXCEPT !.Temperature = tok.n]
    [] tok.k = "condition" -> [c EXCEPT !.Condition = tok.s]
    [] tok.k = "humidity" -> [c EXCEPT !.Humidity = tok.n]
    [] tok.k = "updated" -> [c EXCEPT !.Updated = ParseTime(tok.n)]
    [] OTHER -> c

RECURSIVE DecodeMembers(_, _, _)
DecodeMembers(c, data, i) ==
  IF i >= Len(data) THEN c
  ELSE DecodeMembers(DecodeMember(c, data[i]), data, i + 1)

\* json.Unmarshal(data, &cached): err, and the struct decoded from a zero
\* value (members the file lacks keep their zero value).
Unmarshal(data) ==
  IF ValidJSON(data)
  THEN [err |-> FALSE, cached |-> DecodeMembers(ZeroCache, data, 2)]
  ELSE [err |-> TRUE, cached |-> ZeroCache]

\* A file: whether the path exists, and its content.
NoFile == [exists |-> FALSE, data |-> << >>]
File(data) == [exists |-> TRUE, data |-> data]

\* ------------------------------------------------------ strconv.Atoi
Digits == {"0", "1", "2", "3", "4", "5", "6", "7", "8", "9"}
DigitVal(ch) ==
  CASE ch = "0" -> 0 [] ch = "1" -> 1 [] ch = "2" -> 2 [] ch = "3" -> 3
    [] ch = "4" -> 4 [] ch = "5" -> 5 [] ch = "6" -> 6 [] ch = "7" -> 7
    [] ch = "8" -> 8 [] ch = "9" -> 9

\* The largest and the smallest int of the 32-bit build (on the 64-bit
\* build they are 2^63 - 1 and -2^63, and all below is the same with them).
MaxInt == 2147483647
MinInt == (0 - MaxInt) - 1

\* The digits s added to acc, a number of sign `neg`; a value that leaves
\* the range of int is a range error and becomes the nearest int.
RECURSIVE DigitsVal(_, _, _)
DigitsVal(s, acc, neg) ==
  IF s = << >> THEN [n |-> acc, err |-> FALSE]
  ELSE LET d == DigitVal(Head(s)) IN
    IF neg
    THEN IF acc < 0 - (MaxInt \div 10) \/ acc * 10 < MinInt + d
         THEN [n |-> MinInt, err |-> TRUE]
         ELSE DigitsVal(Tail(s), acc * 10 - d, neg)
    ELSE IF acc > MaxInt \div 10 \/ acc * 10 > MaxInt - d
         THEN [n |-> MaxInt, err |-> TRUE]
         ELSE DigitsVal(Tail(s), acc * 10 + d, neg)

\* strconv.Atoi on a string given as its characters: an optional sign and
\* at least one decimal digit, else a syntax error and the value 0; a
\* number out of the range of int is a range error and the value is the
\* largest (smallest) int.
Atoi(s) ==
  LET signed == s # << >> /\ Head(s) \in {"+", "-"}
      body == IF signed THEN Tail(s) ELSE s
      ok == body # << >> /\ \A i \in 1..Len(body) : body[i] \in Digits
  IN  IF ~ok THEN [n |-> 0, err |-> TRUE]
      ELSE DigitsVal(body, 0, signed /\ Head(s) = "-")

\* ------------------------------------------------ the wttr.in response
Val(v) == [value |-> v]
Area(names) == [areaName |-> names]
Cond(t, h, descs) == [temp_C |-> t, humidity |-> h, weatherDesc |-> descs]
\* A response body: whether it is JSON at all, and the two arrays of
\* wttrResponse that the code reads.
Body(valid, areas, conds) ==
  [valid |-> valid, nearest_area |-> areas, current_condition |-> conds]

\* A temperature of twenty digits, more than an int of either build holds.
Nines == [i \in 1..20 |-> "9"]

\* The bodies a GET may return: two complete reports that differ in every
\* field, one with no area, a non-numeric temperature, an empty humidity
\* and no description, one whose area name is the empty string, one whose
\* temperature is out of the range of int, one with no current condition,
\* and one that is not JSON.
Bodies ==
  { Body(TRUE, << Area(<< Val("Sleman") >>) >>,
         << Cond(<< "2", "8" >>, << "6", "0" >>, << Val("Sunny") >>) >>),
    Body(TRUE, << Area(<< Val("Depok") >>) >>,
         << Cond(<< "3", "1" >>, << "7", "5" >>, << Val("Rain") >>) >>),
    Body(TRUE, << >>, << Cond(<< "x" >>, << >>, << >>) >>),
    Body(TRUE, << Area(<< Val("") >>) >>,
         << Cond(<< "2", "8" >>, << "6", "0" >>, << Val("Sunny") >>) >>),
    Body(TRUE, << Area(<< Val("Sleman") >>) >>,
         << Cond(Nines, << "-", "5" >>, << Val("Hot") >>) >>),
    Body(TRUE, << Area(<< Val("Sleman") >>) >>, << >>),
    Body(FALSE, << >>, << >>) }
NoBody == Body(FALSE, << >>, << >>)

\* What fetchWeatherFromAPI returns: (location, temp, condition, hum, err).
FetchErr == [err |-> TRUE, loc |-> "", temp |-> 0, cond |-> "", hum |-> 0]
FetchOK(l, t, c, h) == [err |-> FALSE, loc |-> l, temp |-> t, cond |-> c, hum |-> h]

\* The part of fetchWeatherFromAPI after the body is read: decode, require
\* a current condition, take each field or its default.
Extract(body) ==
  IF ~body.valid THEN FetchErr
  ELSE IF Len(body.current_condition) = 0 THEN FetchErr
  ELSE
    LET cc == body.current_condition[1]
        location ==
          IF Len(body.nearest_area) > 0 /\ Len(body.nearest_area[1].areaName) > 0
          THEN body.nearest_area[1].areaName[1].value
          ELSE weatherLocation
        condition ==
          IF Len(cc.weatherDesc) > 0 THEN cc.weatherDesc[1].value ELSE "Unknown"
    IN  FetchOK(location, Atoi(cc.temp_C).n, condition, Atoi(cc.humidity).n)

\* math.Pow(2, x) for the small non-negative x of the retry loop.
RECURSIVE Pow2(_)
Pow2(x) == IF x <= 0 THEN 1 ELSE 2 * Pow2(x - 1)

\* The delay, in seconds, slept after failed attempt number `attempt`.
Backoff(attempt) == Pow2(attempt - 1)

\* ------------------------------------------------------ sync.RWMutex
\* The mutex: the goroutine holding it for writing ("" when none), the
\* writer that has announced itself and waits for the readers to leave,
\* and the holders of a read lock (handlers and threads).
MuFree == [writer |-> "", waiting |-> "", hreaders |-> {}, treaders |-> {}]
\* Lock(): a writer announces itself (one writer at a time passes rw.w) ...
CanLockRequest(m) == m.writer = "" /\ m.waiting = ""
\* (Variant: the writer does not wait for the readers to leave.)
CanLockOverReaders(m, t) == m.waiting = t
\* ... and gets the lock when the readers that held it have left.
CanLock(m, t) == m.waiting = t /\ m.hreaders = {} /\ m.treaders = {}
\* (Variant: a read lock that does not wait for writers.)
CanRLockAlways(m) == TRUE
\* RLock() waits while a writer holds the lock or has announced itself.
CanRLock(m) == m.writer = "" /\ m.waiting = ""
\* (Variant: the write lock is not given back.)
UnlockMissing(m) == m
\* Unlock()
Unlock(m) == [m EXCEPT !.writer = ""]

\* --------------------------------------------------------------- state
VARIABLES
  weatherCache,  \* the in-memory reading (the weatherCache struct)
  mu,            \* weatherMu
  disk,          \* the files at the canonical and the temporary path
  now,           \* the clock
  pc,            \* main's and the updater's position
  fr,            \* main's and the updater's local variables
  ticker,        \* the updater's time.Ticker
  hpc,           \* each request handler's position in getWeather
  hres,          \* each request handler's result so far
  hseen,         \* history: the readings held while a handler's read() ran
  g,             \* history: what the properties refer back to
  sd,            \* the shutdown: the signal goroutine, ctx, the server's drain
  req            \* one request on its way through the router

vars ==
  << weatherCache, mu, disk, now, pc, fr, ticker, hpc, hres, hseen, g, sd, req >>

\* Paths.
weatherCacheFile == "canon"
\* (Variant: the file is written in place.)
TempFileInPlace == weatherCacheFile
\* weatherCacheFile + ".tmp"
TempFile == "tmp"

\* The local variables of a thread, at their zero values.
Locals0 ==
  [ret |-> "", attempt |-> 0, err |-> FALSE, status |-> 0, body |-> NoBody,
   log |-> << >>, res |-> FetchErr, wi |-> 0, jsonBytes |-> << >>,
   saveErr |-> FALSE, cached |-> ZeroCache, cacheLoaded |-> FALSE,
   cacheAge |-> 0]

\* One entry of the record of what a fetch call did: a GET and the status
\* it got (0 for a transport error), or a sleep of secs seconds.
EvGet(status) == [ev |-> "GET", n |-> status]
EvSleep(secs) == [ev |-> "sleep", n |-> secs]

\* A request's path is what follows each of its slashes: "/" is one empty
\* segment, "/a/" is a and an empty one, "//a" an empty one and a. A
\* segment is written as its stem and its extension.
Seg(stem, ext) == [stem |-> stem, ext |-> ext]
Empty == Seg("", "")
DotDot == Seg("..", "")
Segments ==
  {Empty, DotDot, Seg("index", ".html"), Seg("status-fragment", ""),
   Seg("pprof", ""), Seg("fragment", ".tmpl"), Seg("style", ".css")}
Paths == UNION {[1..n -> Segments] : n \in 1..MaxPathLen}

\* No request is on its way through the router.
NoRequest ==
  [stage |-> "none", path |-> << >>, h |-> 0, status |-> 0, cache |-> "",
   by |-> "", location |-> << >>]

NoResult == [location |-> "", temperature |-> 0, condition |-> "", humidity |-> 0]

\* The cache files the process may find when it first starts: none, the
\* file a previous run saved (long ago, recently, or with a timestamp ahead
\* of this machine's clock), or the first lines of such a file.
SavedBefore(ts) ==
  [Location |-> "Sleman", Temperature |-> 25, Condition |-> "Cloudy",
   Humidity |-> 80, Updated |-> ParseTime(ts)]
InitialFiles ==
  {NoFile}
    \cup {File(Marshal(SavedBefore(ts))) : ts \in {0, StartTime - 1, MaxTime}}
    \cup {File(SubSeq(Marshal(SavedBefore(StartTime - 1)), 1, 3))}

\* The volatile state of a process that has just started.
BootPc == [t \in Threads |-> IF t = "main" THEN "load" ELSE "off"]
BootFr == [t \in Threads |-> Locals0]
NoTicker == [on |-> FALSE, next |-> 0, buf |-> FALSE]
BootHpc == [h \in Handlers |-> "idle"]
BootHres == [h \in Handlers |-> NoResult]
BootHseen == [h \in Handlers |-> {}]

\* Before gracefulShutdown is called: no signal goroutine (sig), the
\* updater's ctx not cancelled, no Shutdown context (timer), the listener
\* not closed (inShutdown), nothing sent on `done`, no /pprof request being
\* answered (busy); exit: what the process left unfinished when it exited.
NoExit == [happened |-> FALSE, updater |-> "", active |-> FALSE]
NoShutdown ==
  [sig |-> "off", cancelled |-> FALSE, timer |-> "none", inShutdown |-> FALSE,
   done |-> "empty", busy |-> FALSE, exit |-> NoExit]

NoCycle ==
  [by |-> "", after |-> "none", late |-> FALSE, phase |-> "none",
   fetch |-> "none", pre |-> ZeroCache, preFile |-> NoFile, got |-> FetchErr]

Init ==
  /\ weatherCache = ZeroCache
  /\ mu = MuFree
  /\ pc = BootPc
  /\ fr = BootFr
  /\ ticker = NoTicker
  /\ hpc = BootHpc
  /\ hres = BootHres
  /\ hseen = BootHseen
  /\ now = StartTime
  /\ sd = NoShutdown
  /\ req = NoRequest
  /\ \E f \in InitialFiles :
       /\ disk = [p \in {weatherCacheFile, TempFile} |->
                    IF p = weatherCacheFile THEN f ELSE NoFile]
       /\ g = [file0 |-> f, populated |-> FALSE,
               committed |-> ZeroCache, installing |-> {},
               cyc |-> NoCycle, fetched |-> FALSE, synced |-> FALSE,
               saved |-> [ok |-> FALSE, c |-> ZeroCache],
               loadRet |-> "none", restarts |-> 0]

\* --------------------------------------------------------- shorthands
Goto(t, label) == pc' = [pc EXCEPT ![t] = label]
\* The readings a read() in progress may return: the one the cache held at
\* the last unlock and, once a writer has called Lock(), the one it installs.
HeldNow == {Four(g.committed)} \cup g.installing
\* The handlers that are inside getWeather.
Reading == {h \in Handlers : hpc[h] # "idle"}
\* A writer calls Lock() to install `new`: every read() in progress may
\* from now on return it.
NoteInstall(new) ==
  hseen' = [h \in Handlers |-> IF h \in Reading THEN hseen[h] \cup {new} ELSE hseen[h]]

\* The struct after the i-th of the five assignments that install `new`.
SetField(c, i, new) ==
  CASE i = 1 -> [c EXCEPT !.Location = new.Location]
    [] i = 2 -> [c EXCEPT !.Temperature = new.Temperature]
    [] i = 3 -> [c EXCEPT !.Condition = new.Condition]
    [] i = 4 -> [c EXCEPT !.Humidity = new.Humidity]
    [] i = 5 -> [c EXCEPT !.Updated = new.Updated]

\* ------------------------------------------------- loadWeatherCache
\* (Variant: the error of json.Unmarshal is not looked at.)
LoadRejectsMissing(file) == ~file.exists
\* Whether loadWeatherCache gives up on what os.ReadFile returned: the
\* file is missing, or json.Unmarshal reports an error.
LoadRejects(file) == ~file.exists \/ Unmarshal(file.data).err

\* os.ReadFile and json.Unmarshal: return false, or go on to install.
LoadRead ==
  /\ pc["main"] = "load"
  /\ LET file == disk[weatherCacheFile] IN
       IF LoadRejects(file)
       THEN /\ fr' = [fr EXCEPT !["main"].cacheLoaded = FALSE]
            /\ g' = [g EXCEPT !.loadRet = "false"]
            /\ Goto("main", "main_check")
       ELSE /\ fr' = [fr EXCEPT !["main"].cached = Unmarshal(file.data).cached]
            /\ g' = g
            /\ Goto("main", "load_lock")
  /\ UNCHANGED << weatherCache, mu, disk, now, ticker, hpc, hres, hseen, sd, req >>

\* weatherMu.Lock(): announce the writer.
LoadLock ==
  /\ pc["main"] = "load_lock"
  /\ CanLockRequest(mu)
  /\ mu' = [mu EXCEPT !.waiting = "main"]
  /\ g' = [g EXCEPT !.populated = TRUE,
                    !.installing = {Four(fr["main"].cached)}]
  /\ NoteInstall(Four(fr["main"].cached))
  /\ Goto("main", "load_lockwait")
  /\ UNCHANGED << weatherCache, disk, now, fr, ticker, hpc, hres, sd, req >>

\* weatherMu.Lock() returns.
LoadLocked ==
  /\ pc["main"] = "load_lockwait"
  /\ CanLock(mu, "main")
  /\ mu' = [mu EXCEPT !.waiting = "", !.writer = "main"]
  /\ fr' = [fr EXCEPT !["main"].wi = 1]
  /\ Goto("main", "load_set")
  /\ UNCHANGED << weatherCache, disk, now, ticker, hpc, hres, hseen, g, sd, req >>

\* One of the five assignments weatherCache.X = cached.X.
LoadSet ==
  /\ pc["main"] = "load_set"
  /\ LET i == fr["main"].wi IN
       /\ weatherCache' = SetField(weatherCache, i, fr["main"].cached)
       /\ IF i < 5
          THEN /\ fr' = [fr EXCEPT !["main"].wi = i + 1]
               /\ UNCHANGED pc
          ELSE /\ fr' = [fr EXCEPT !["main"].wi = 0]
               /\ Goto("main", "load_unlock")
  /\ UNCHANGED << mu, disk, now, ticker, hpc, hres, hseen, g, sd, req >>

\* weatherMu.Unlock(), the age log line, return true.
LoadUnlock ==
  /\ pc["main"] = "load_unlock"
  /\ mu' = Unlock(mu)
  /\ fr' = [fr EXCEPT !["main"].cacheLoaded = TRUE, !["main"].cached = ZeroCache]
  /\ g' = [g EXCEPT !.committed = weatherCache, !.installing = {},
                    !.loadRet = "true"]
  /\ Goto("main", "main_check")
  /\ UNCHANGED << weatherCache, disk, now, ticker, hpc, hres, hseen, sd, req >>

\* ------------------------------------------------------- main, part 1
\* A call of updateWeatherCache by thread t, to continue at `ret`: the
\* callee's locals, and the cycle's record of what it started from and of
\* whether cancelWeather() had been called by then.
CallUpdate(t, ret) ==
  /\ fr' = [fr EXCEPT ![t] = [Locals0 EXCEPT !.ret = ret, !.attempt = 1]]
  /\ g' = [g EXCEPT !.cyc = [by |-> t,
                             after |-> IF g.cyc.by = t THEN g.cyc.phase ELSE "none",
                             late |-> sd.cancelled,
                             phase |-> "running", fetch |-> "pending",
                             pre |-> weatherCache,
                             preFile |-> disk[weatherCacheFile], got |-> FetchErr]]
  /\ Goto(t, "fetch_do")

\* (Variant: a reading exactly one interval old counts as stale.)
IsStaleAtInterval(age) == age >= weatherUpdateInterval
\* The staleness test of main.
IsStale(age) == age > weatherUpdateInterval

\* if !cacheLoaded { updateWeatherCache() } else { weatherMu.RLock() ...
MainCheck ==
  /\ pc["main"] = "main_check"
  /\ IF ~fr["main"].cacheLoaded
     THEN CallUpdate("main", "spawn")
     ELSE /\ Goto("main", "age_rlock")
          /\ UNCHANGED << fr, g >>
  /\ UNCHANGED << weatherCache, mu, disk, now, ticker, hpc, hres, hseen, sd, req >>

\* weatherMu.RLock() of the staleness check.
AgeRLock ==
  /\ pc["main"] = "age_rlock"
  /\ CanRLock(mu)
  /\ mu' = [mu EXCEPT !.treaders = @ \cup {"main"}]
  /\ Goto("main", "age_read")
  /\ UNCHANGED << weatherCache, disk, now, fr, ticker, hpc, hres, hseen, g, sd, req >>

\* cacheAge := time.Since(weatherCache.Updated)
AgeRead ==
  /\ pc["main"] = "age_read"
  /\ fr' = [fr EXCEPT !["main"].cacheAge = Since(now, weatherCache.Updated)]
  /\ Goto("main", "age_runlock")
  /\ UNCHANGED << weatherCache, mu, disk, now, ticker, hpc, hres, hseen, g, sd, req >>

\* weatherMu.RUnlock(); if cacheAge > weatherUpdateInterval { update }
AgeRUnlock ==
  /\ pc["main"] = "age_runlock"
  /\ mu' = [mu EXCEPT !.treaders = @ \ {"main"}]
  /\ IF IsStale(fr["main"].cacheAge)
     THEN CallUpdate("main", "spawn")
     ELSE /\ fr' = [fr EXCEPT !["main"] = Locals0]
          /\ g' = g
          /\ Goto("main", "spawn")
  /\ UNCHANGED << weatherCache, disk, now, ticker, hpc, hres, hseen, sd, req >>

\* ----------------------------------------------- fetchWeatherFromAPI
\* What httpClient.Do may return: a transport error (no response), a
\* response with another status, or a 200 with one of the bodies.
Outcomes ==
  {[err |-> TRUE, status |-> 0, body |-> NoBody],
   [err |-> FALSE, status |-> 500, body |-> NoBody]}
    \cup {[err |-> FALSE, status |-> StatusOK, body |-> b] : b \in Bodies}

\* (Variant: the loop breaks only on a 200 whose body can be used.)
AttemptUsable(o) ==
  /\ ~o.err /\ o.status = StatusOK
  /\ o.body.valid /\ Len(o.body.current_condition) >= 1
\* Whether the loop breaks after this attempt.
AttemptSucceeded(o) == ~o.err /\ o.status = StatusOK
\* (Variant: a sleep after every failed attempt, the last included.)
SleepsAfterEvery(attempt) == attempt <= maxRetries
\* Whether the loop sleeps after this failed attempt.
SleepsAfter(attempt) == attempt < maxRetries

\* One pass of the loop body up to the sleep: the GET (which takes time),
\* the break on a 200, the close of a failed response.
FetchDo(t) ==
  /\ pc[t] = "fetch_do"
  /\ now < MaxTime
  /\ now' = now + 1
  /\ \E o \in Outcomes :
       /\ fr' = [fr EXCEPT ![t].err = o.err, ![t].status = o.status,
                           ![t].body = o.body,
                           ![t].log = Append(@, EvGet(o.status)),
                           ![t].attempt =
                              IF AttemptSucceeded(o) \/ SleepsAfter(@) THEN @ ELSE @ + 1]
       /\ IF AttemptSucceeded(o) THEN Goto(t, "fetch_end")
          ELSE IF SleepsAfter(fr[t].attempt) THEN Goto(t, "fetch_sleep")
          ELSE Goto(t, "fetch_end")
  /\ UNCHANGED << weatherCache, mu, disk, ticker, hpc, hres, hseen, g, sd, req >>

\* time.Sleep(2^(attempt-1) seconds), then attempt++.
FetchSleep(t) ==
  /\ pc[t] = "fetch_sleep"
  /\ fr' = [fr EXCEPT ![t].log = Append(@, EvSleep(Backoff(fr[t].attempt))),
                      ![t].attempt = @ + 1]
  /\ Goto(t, "fetch_do")
  /\ UNCHANGED << weatherCache, mu, disk, now, ticker, hpc, hres, hseen, g, sd, req >>

\* After the loop: the two error returns, else read and decode the body.
FetchResult(err, status, body) ==
  IF err THEN FetchErr
  ELSE IF status # StatusOK THEN FetchErr
  ELSE Extract(body)

FetchEnd(t) ==
  /\ pc[t] = "fetch_end"
  /\ fr' = [fr EXCEPT ![t].res = FetchResult(fr[t].err, fr[t].status, fr[t].body),
                      ![t].body = NoBody]
  /\ g' = [g EXCEPT !.cyc.got = FetchResult(fr[t].err, fr[t].status, fr[t].body),
                    !.cyc.fetch = IF FetchResult(fr[t].err, fr[t].status, fr[t].body).err
                                  THEN "err" ELSE "ok"]
  /\ Goto(t, "upd_check")
  /\ UNCHANGED << weatherCache, mu, disk, now, ticker, hpc, hres, hseen, sd, req >>

\* ------------------------------------------------ updateWeatherCache
\* The reading updateWeatherCache installs: the four fetched values and
\* time.Now().
Fetched(res, clock) ==
  [Location |-> res.loc, Temperature |-> res.temp, Condition |-> res.cond,
   Humidity |-> res.hum, Updated |-> TimeNow(clock)]
FourOf(res) ==
  [location |-> res.loc, temperature |-> res.temp, condition |-> res.cond,
   humidity |-> res.hum]

\* (Variant: the error of the fetch is not looked at.)
UpdateSkipsNever(res) == FALSE
\* Whether updateWeatherCache returns without touching the cache.
UpdateSkips(res) == res.err

\* (Variant: a failed cycle ends the updater's loop.)
ReturnToFatal(ret, failed) == IF failed /\ ret = "select" THEN "stopped" ELSE ret
\* Where a thread goes on when updateWeatherCache returns: the function
\* returns nothing, so after a cycle that failed (its error is only logged)
\* the caller continues as after one that did not.
ReturnTo(ret, failed) == ret

\* if err != nil { log; return }
UpdCheck(t) ==
  /\ pc[t] = "upd_check"
  /\ IF UpdateSkips(fr[t].res)
     THEN /\ fr' = [fr EXCEPT ![t] = Locals0]
          /\ g' = [g EXCEPT !.cyc.phase = "err"]
          /\ Goto(t, ReturnTo(fr[t].ret, TRUE))
     ELSE /\ fr' = [fr EXCEPT ![t].log = << >>, ![t].attempt = 0,
                              ![t].err = FALSE, ![t].status = 0]
          /\ g' = g
          /\ Goto(t, "upd_lock")
  /\ UNCHANGED << weatherCache, mu, disk, now, ticker, hpc, hres, hseen, sd, req >>

\* weatherMu.Lock(): announce the writer.
UpdLock(t) ==
  /\ pc[t] = "upd_lock"
  /\ CanLockRequest(mu)
  /\ mu' = [mu EXCEPT !.waiting = t]
  /\ g' = [g EXCEPT !.populated = TRUE, !.installing = {FourOf(fr[t].res)}]
  /\ NoteInstall(FourOf(fr[t].res))
  /\ Goto(t, "upd_lockwait")
  /\ UNCHANGED << weatherCache, disk, now, fr, ticker, hpc, hres, sd, req >>

\* weatherMu.Lock() returns.
UpdLocked(t) ==
  /\ pc[t] = "upd_lockwait"
  /\ CanLock(mu, t)
  /\ mu' = [mu EXCEPT !.waiting = "", !.writer = t]
  /\ fr' = [fr EXCEPT ![t].wi = 1]
  /\ g' = [g EXCEPT !.synced = FALSE]
  /\ Goto(t, "upd_set")
  /\ UNCHANGED << weatherCache, disk, now, ticker, hpc, hres, hseen, sd, req >>

\* One of the five assignments; the fifth reads the clock.
UpdSet(t) ==
  /\ pc[t] = "upd_set"
  /\ LET i == fr[t].wi IN
       /\ weatherCache' = SetField(weatherCache, i, Fetched(fr[t].res, now))
       /\ IF i < 5
          THEN /\ fr' = [fr EXCEPT ![t].wi = i + 1]
               /\ UNCHANGED pc
          ELSE /\ fr' = [fr EXCEPT ![t].wi = 0]
               /\ Goto(t, "upd_unlock")
  /\ UNCHANGED << mu, disk, now, ticker, hpc, hres, hseen, g, sd, req >>

\* weatherMu.Unlock()
UpdUnlock(t) ==
  /\ pc[t] = "upd_unlock"
  /\ mu' = Unlock(mu)
  /\ g' = [g EXCEPT !.committed = weatherCache, !.installing = {},
                    !.fetched = TRUE]
  /\ Goto(t, "save_rlock")
  /\ UNCHANGED << weatherCache, disk, now, fr, ticker, hpc, hres, hseen, sd, req >>

\* --------------------------------------------------- saveWeatherCache
\* weatherMu.RLock(); defer weatherMu.RUnlock()
SaveRLock(t) ==
  /\ pc[t] = "save_rlock"
  /\ CanRLock(mu)
  /\ mu' = [mu EXCEPT !.treaders = @ \cup {t}]
  /\ Goto(t, "save_prep")
  /\ UNCHANGED << weatherCache, disk, now, fr, ticker, hpc, hres, hseen, g, sd, req >>

\* os.MkdirAll (which may fail), the copy of the five fields and
\* json.MarshalIndent.
SavePrep(t) ==
  /\ pc[t] = "save_prep"
  /\ \E fails \in BOOLEAN :
       IF fails
       THEN /\ fr' = [fr EXCEPT ![t].saveErr = TRUE]
            /\ Goto(t, "save_runlock")
       ELSE /\ fr' = [fr EXCEPT ![t].jsonBytes = Marshal(weatherCache)]
            /\ Goto(t, "save_open")
  /\ UNCHANGED << weatherCache, mu, disk, now, ticker, hpc, hres, hseen, g, sd, req >>

\* os.WriteFile opens the temporary path with O_CREATE|O_TRUNC (or fails).
SaveOpen(t) ==
  /\ pc[t] = "save_open"
  /\ \E fails \in BOOLEAN :
       IF fails
       THEN /\ fr' = [fr EXCEPT ![t].saveErr = TRUE, ![t].jsonBytes = << >>]
            /\ Goto(t, "save_runlock")
            /\ UNCHANGED disk
       ELSE /\ disk' = [disk EXCEPT ![TempFile] = File(<< >>)]
            /\ Goto(t, "save_write")
            /\ UNCHANGED fr
  /\ UNCHANGED << weatherCache, mu, now, ticker, hpc, hres, hseen, g, sd, req >>

\* The first lines reach the file.
SaveWrite(t) ==
  /\ pc[t] = "save_write"
  /\ disk' = [disk EXCEPT ![TempFile] = File(SubSeq(fr[t].jsonBytes, 1, ChunkLen))]
  /\ Goto(t, "save_flush")
  /\ UNCHANGED << weatherCache, mu, now, fr, ticker, hpc, hres, hseen, g, sd, req >>

\* The rest is written, or the write fails (disk full) and leaves the
\* temporary file short.
SaveFlush(t) ==
  /\ pc[t] = "save_flush"
  /\ \E fails \in BOOLEAN :
       IF fails
       THEN /\ fr' = [fr EXCEPT ![t].saveErr = TRUE, ![t].jsonBytes = << >>]
            /\ Goto(t, "save_runlock")
            /\ UNCHANGED disk
       ELSE /\ disk' = [disk EXCEPT ![TempFile] = File(fr[t].jsonBytes)]
            /\ fr' = [fr EXCEPT ![t].jsonBytes = << >>]
            /\ Goto(t, "save_rename")
  /\ UNCHANGED << weatherCache, mu, now, ticker, hpc, hres, hseen, g, sd, req >>

\* os.Rename(tempFile, weatherCacheFile): all or nothing.
SaveRename(t) ==
  /\ pc[t] = "save_rename"
  /\ \E fails \in BOOLEAN :
       IF fails
       THEN /\ fr' = [fr EXCEPT ![t].saveErr = TRUE]
            /\ UNCHANGED << disk, g >>
       ELSE /\ disk' = [p \in DOMAIN disk |->
                          IF p = weatherCacheFile THEN disk[TempFile] ELSE NoFile]
            /\ g' = [g EXCEPT !.synced = TRUE,
                              !.saved = [ok |-> TRUE, c |-> weatherCache]]
            /\ UNCHANGED fr
  /\ Goto(t, "save_runlock")
  /\ UNCHANGED << weatherCache, mu, now, ticker, hpc, hres, hseen, sd, req >>

\* The deferred weatherMu.RUnlock(), the log line of updateWeatherCache and
\* its return.
SaveRUnlock(t) ==
  /\ pc[t] = "save_runlock"
  /\ mu' = [mu EXCEPT !.treaders = @ \ {t}]
  /\ g' = [g EXCEPT !.cyc.phase = IF fr[t].saveErr THEN "unsaved" ELSE "ok"]
  /\ fr' = [fr EXCEPT ![t] = Locals0]
  /\ Goto(t, ReturnTo(fr[t].ret, fr[t].saveErr))
  /\ UNCHANGED << weatherCache, disk, now, ticker, hpc, hres, hseen, sd, req >>

\* ------------------------------------------------------- main, part 2
\* go startWeatherUpdater(ctx)
Spawn ==
  /\ pc["main"] = "spawn"
  /\ pc' = [pc EXCEPT !["main"] = "listen", !["updater"] = "new_ticker"]
  /\ UNCHANGED << weatherCache, mu, disk, now, fr, ticker, hpc, hres, hseen, g, sd, req >>

\* gracefulShutdown up to the point where the server accepts requests: the
\* signal goroutine is started, registers for the signals and blocks in
\* <-c; server.ListenAndServe() binds the port and serves.
Listen ==
  /\ pc["main"] = "listen"
  /\ Goto("main", "serving")
  /\ sd' = [sd EXCEPT !.sig = "wait"]
  /\ UNCHANGED << weatherCache, mu, disk, now, fr, ticker, hpc, hres, hseen, g, req >>

\* ------------------------------------------------ startWeatherUpdater
\* ticker := time.NewTicker(weatherUpdateInterval)
NewTicker ==
  /\ pc["updater"] = "new_ticker"
  /\ ticker' = [on |-> TRUE, next |-> now + weatherUpdateInterval, buf |-> FALSE]
  /\ Goto("updater", "select")
  /\ UNCHANGED << weatherCache, mu, disk, now, fr, hpc, hres, hseen, g, sd, req >>

\* The runtime sends on ticker.C when the period has passed; the channel
\* holds one tick, a tick that finds it full is dropped.
TickerFire ==
  /\ ticker.on
  /\ now >= ticker.next
  /\ ticker' = [ticker EXCEPT !.buf = TRUE, !.next = @ + weatherUpdateInterval]
  /\ UNCHANGED << weatherCache, mu, disk, now, pc, fr, hpc, hres, hseen, g, sd, req >>

\* case <-ticker.C: updateWeatherCache()
UpdaterTick ==
  /\ pc["updater"] = "select"
  /\ ticker.buf
  /\ ticker' = [ticker EXCEPT !.buf = FALSE]
  /\ CallUpdate("updater", "select")
  /\ UNCHANGED << weatherCache, mu, disk, now, hpc, hres, hseen, sd, req >>

\* ------------------------------------------------------- the server
\* (Variant: the server is started before the cache is loaded and primed.)
AcceptingEarly == pc["main"] # "exited" /\ ~sd.inShutdown
\* Whether the server accepts a request: main is inside ListenAndServe,
\* which it calls after the load and the bootstrap cycle, and Shutdown has
\* not closed the listener.
Accepting == pc["main"] = "serving" /\ ~sd.inShutdown

\* -------------------------------------------------------- getWeather
\* (Variant: the empty cache is returned as it is.)
SentinelZero == NoResult
\* What getWeather returns in place of an empty cache.
Sentinel ==
  [location |-> weatherLocation, temperature |-> 0, condition |-> "loading...",
   humidity |-> 0]

\* A request arrives (the server is accepting) and its handler calls
\* getStatusJSON, which calls getWeather.
HandlerCall(h) ==
  /\ Accepting
  /\ hpc[h] = "idle"
  /\ hpc' = [hpc EXCEPT ![h] = "rlock"]
  /\ hseen' = [hseen EXCEPT ![h] = HeldNow]
  /\ UNCHANGED << weatherCache, mu, disk, now, pc, fr, ticker, hres, g, sd, req >>

\* weatherMu.RLock()
HandlerRLock(h) ==
  /\ hpc[h] = "rlock"
  /\ CanRLock(mu)
  /\ mu' = [mu EXCEPT !.hreaders = @ \cup {h}]
  /\ hpc' = [hpc EXCEPT ![h] = "check"]
  /\ UNCHANGED << weatherCache, disk, now, pc, fr, ticker, hres, hseen, g, sd, req >>

\* if weatherCache.Location == "" { return the sentinel }
HandlerCheck(h) ==
  /\ hpc[h] = "check"
  /\ IF weatherCache.Location = ""
     THEN /\ hres' = [hres EXCEPT ![h] = Sentinel]
          /\ hpc' = [hpc EXCEPT ![h] = "runlock"]
     ELSE /\ hres' = hres
          /\ hpc' = [hpc EXCEPT ![h] = "return"]
  /\ UNCHANGED << weatherCache, mu, disk, now, pc, fr, ticker, hseen, g, sd, req >>

\* return weatherCache.Location, .Temperature, .Condition, .Humidity, nil:
\* the operands are evaluated; the deferred unlock is still to run.
HandlerReturn(h) ==
  /\ hpc[h] = "return"
  /\ hres' = [hres EXCEPT ![h] = Four(weatherCache)]
  /\ hpc' = [hpc EXCEPT ![h] = "runlock"]
  /\ UNCHANGED << weatherCache, mu, disk, now, pc, fr, ticker, hseen, g, sd, req >>

\* The deferred weatherMu.RUnlock(); getWeather hands its values to
\* getStatusJSON and the handler writes the response.
HandlerRUnlock(h) ==
  /\ hpc[h] = "runlock"
  /\ mu' = [mu EXCEPT !.hreaders = @ \ {h}]
  /\ hpc' = [hpc EXCEPT ![h] = "idle"]
  /\ hres' = [hres EXCEPT ![h] = NoResult]
  /\ hseen' = [hseen EXCEPT ![h] = {}]
  /\ UNCHANGED << weatherCache, disk, now, pc, fr, ticker, g, sd, req >>

\* ---------------------------------------- startWeatherUpdater, stop
\* case <-ctx.Done(): log, return; the deferred ticker.Stop(). The select
\* takes this case when ctx is cancelled, whether or not a tick is waiting
\* (when both are ready it takes either one).
UpdaterStop ==
  /\ pc["updater"] = "select"
  /\ sd.cancelled
  /\ ticker' = [ticker EXCEPT !.on = FALSE]
  /\ Goto("updater", "stopped")
  /\ UNCHANGED << weatherCache, mu, disk, now, fr, hpc, hres, hseen, g, sd, req >>

\* -------------------------------------------------- gracefulShutdown
\* The requests the server is answering: the handlers inside getWeather
\* and a /pprof request whose client is still being written to.
Active == Reading # {} \/ sd.busy

\* main returns and the process exits: every goroutine ends where it is.
Exit ==
  /\ pc' = [t \in Threads |-> "exited"]
  /\ fr' = BootFr
  /\ ticker' = [ticker EXCEPT !.on = FALSE]
  /\ hpc' = [h \in Handlers |-> "gone"]
  /\ hres' = BootHres
  /\ hseen' = BootHseen
  /\ sd' = [sd EXCEPT !.sig = "exited", !.timer = "none", !.busy = FALSE,
                      !.exit = [happened |-> TRUE, updater |-> pc["updater"],
                                active |-> Active]]

\* server.ListenAndServe() returns an error other than ErrServerClosed (the
\* port is taken): gracefulShutdown returns it, main logs it and returns.
ListenFails ==
  /\ pc["main"] = "listen"
  /\ Exit
  /\ UNCHANGED << weatherCache, mu, disk, now, g, req >>

\* A termination signal is delivered: <-c returns, the goroutine logs.
SigReceive ==
  /\ sd.sig = "wait"
  /\ sd' = [sd EXCEPT !.sig = "cancel"]
  /\ UNCHANGED << weatherCache, mu, disk, now, pc, fr, ticker, hpc, hres, hseen, g, req >>

\* cancelWeather(); then, timeout being positive, context.WithTimeout
\* starts the timer of the Shutdown context.
SigCancel ==
  /\ sd.sig = "cancel"
  /\ sd' = [sd EXCEPT !.sig = "shutdown", !.cancelled = TRUE,
                      !.timer = IF shutdownTimeout > 0 THEN "armed" ELSE "none"]
  /\ UNCHANGED << weatherCache, mu, disk, now, pc, fr, ticker, hpc, hres, hseen, g, req >>

\* server.Shutdown(ctx) begins: the listener is closed.
SigShutdown ==
  /\ sd.sig = "shutdown"
  /\ sd' = [sd EXCEPT !.sig = "drain", !.inShutdown = TRUE]
  /\ UNCHANGED << weatherCache, mu, disk, now, pc, fr, ticker, hpc, hres, hseen, g, req >>

\* The timeout of the Shutdown context passes.
DrainTimeout ==
  /\ sd.timer = "armed"
  /\ sd' = [sd EXCEPT !.timer = "expired"]
  /\ UNCHANGED << weatherCache, mu, disk, now, pc, fr, ticker, hpc, hres, hseen, g, req >>

\* (Variant: Shutdown with a context that has no deadline.)
DrainEndsWhenIdle(active, timer) == ~active
\* Whether Shutdown's wait ends: no request is being answered, or the
\* context is done.
DrainEnds(active, timer) == ~active \/ timer = "expired"

\* server.Shutdown returns nil when every connection is idle and ctx.Err()
\* when the context is done first; done <- that; the deferred cancel().
SigDrainEnd ==
  /\ sd.sig = "drain"
  /\ DrainEnds(Active, sd.timer)
  /\ sd' = [sd EXCEPT !.sig = "end", !.timer = "none",
                      !.done = IF ~Active THEN "nil" ELSE "deadline"]
  /\ UNCHANGED << weatherCache, mu, disk, now, pc, fr, ticker, hpc, hres, hseen, g, req >>

\* server.ListenAndServe() returns ErrServerClosed once Shutdown was called;
\* main logs and goes on to <-done.
ServeReturns ==
  /\ pc["main"] = "serving"
  /\ sd.inShutdown
  /\ Goto("main", "wait_done")
  /\ UNCHANGED << weatherCache, mu, disk, now, fr, ticker, hpc, hres, hseen, g, sd, req >>

\* return <-done: gracefulShutdown returns what Shutdown returned, main
\* logs an error and returns.
MainReturn ==
  /\ pc["main"] = "wait_done"
  /\ sd.done # "empty"
  /\ Exit
  /\ UNCHANGED << weatherCache, mu, disk, now, g, req >>

\* A request for /pprof is accepted; handlePprof writes the heap profile.
PprofCall ==
  /\ Accepting
  /\ ~sd.busy
  /\ sd' = [sd EXCEPT !.busy = TRUE]
  /\ UNCHANGED << weatherCache, mu, disk, now, pc, fr, ticker, hpc, hres, hseen, g, req >>

\* The client has taken the whole response.
PprofDone ==
  /\ sd.busy
  /\ sd' = [sd EXCEPT !.busy = FALSE]
  /\ UNCHANGED << weatherCache, mu, disk, now, pc, fr, ticker, hpc, hres, hseen, g, req >>

\* ------------------------------------------------------- the router
\* path.Clean as ServeMux uses it: empty segments are dropped and ".."
\* takes the segment before it away (at the root there is none).
RECURSIVE CleanSegs(_, _)
CleanSegs(p, acc) ==
  IF p = << >> THEN acc
  ELSE IF Head(p) = Empty THEN CleanSegs(Tail(p), acc)
  ELSE IF Head(p) = DotDot
       THEN CleanSegs(Tail(p), IF acc = << >> THEN acc
                               ELSE SubSeq(acc, 1, Len(acc) - 1))
  ELSE CleanSegs(Tail(p), Append(acc, Head(p)))

\* cleanPath: the cleaned path, with the trailing slash put back.
cleanPath(p) ==
  LET np == CleanSegs(p, << >>)
  IN  IF np = << >> THEN << Empty >>
      ELSE IF p[Len(p)] = Empty THEN Append(np, Empty)
      ELSE np

\* The paths the program names.
RootPath == << Empty >>
StatusFragmentPath == << Seg("status-fragment", "") >>
PprofPath == << Seg("pprof", "") >>
IndexPath == << Seg("index", ".html") >>

NoStore == "no-store"
LongLived == "public, max-age=31536000, immutable"

\* (Variant: only the templates are hidden.)
HiddenPathTmplOnly(p) == p[Len(p)].ext = ".tmpl"
\* strings.HasSuffix(r.URL.Path, ".tmpl") || r.URL.Path == "/index.html"
HiddenPath(p) == p[Len(p)].ext = ".tmpl" \/ p = IndexPath

\* The response to the request on its way: who wrote it, its status, its
\* Cache-Control header and, for a redirect, its Location.
Reply(by, status, cache, location) ==
  [req EXCEPT !.stage = "done", !.by = by, !.status = status,
              !.cache = cache, !.location = location]

\* The server accepts a request (not a CONNECT) and calls the router.
Request ==
  /\ Accepting
  /\ req.stage = "none"
  /\ \E p \in Paths : req' = [NoRequest EXCEPT !.stage = "mux", !.path = p]
  /\ UNCHANGED << weatherCache, mu, disk, now, pc, fr, ticker, hpc, hres, hseen, g, sd >>

\* ServeMux.ServeHTTP with the patterns "/" and "/pprof": a path that is
\* not clean is answered with a redirect to the clean one; "/pprof" goes
\* to handlePprof; every other path goes to the handler of "/".
ServeMux ==
  /\ req.stage = "mux"
  /\ req' = IF cleanPath(req.path) # req.path
            THEN Reply("redirect", 301, "", cleanPath(req.path))
            ELSE IF req.path = PprofPath THEN [req EXCEPT !.stage = "pprof"]
            ELSE [req EXCEPT !.stage = "static"]
  /\ UNCHANGED << weatherCache, mu, disk, now, pc, fr, ticker, hpc, hres, hseen, g, sd >>

\* handlePprof: the heap profile, with no Cache-Control header.
HandlePprof ==
  /\ req.stage = "pprof"
  /\ req' = Reply("pprof", 200, "", << >>)
  /\ UNCHANGED << weatherCache, mu, disk, now, pc, fr, ticker, hpc, hres, hseen, g, sd >>

\* The handler of "/" up to its first call: http.NotFound for a hidden
\* path; for "/" and "/status-fragment" the call of getStatusJSON, which
\* calls getWeather; for every other path the header and the file server.
HandleStatic ==
  /\ req.stage = "static"
  /\ IF HiddenPath(req.path)
     THEN /\ req' = Reply("NotFound", 404, "", << >>)
          /\ UNCHANGED << hpc, hseen >>
     ELSE IF req.path \in {RootPath, StatusFragmentPath}
     THEN \E h \in Handlers :
            /\ hpc[h] = "idle"
            /\ hpc' = [hpc EXCEPT ![h] = "rlock"]
            /\ hseen' = [hseen EXCEPT ![h] = HeldNow]
            /\ req' = [req EXCEPT !.stage = "status", !.h = h]
     ELSE /\ req' = Reply("fileServer", 200, LongLived, << >>)
          /\ UNCHANGED << hpc, hseen >>
  /\ UNCHANGED << weatherCache, mu, disk, now, pc, fr, ticker, hres, g, sd >>

\* getStatusJSON has returned: the header is set and the template is
\* executed. When tpl.Execute fails on "/", http.Error answers 500 with
\* the header in place; the error of fragmentTpl.Execute is not looked at.
HandleStatus ==
  /\ req.stage = "status"
  /\ hpc[req.h] = "idle"
  /\ \E ok \in BOOLEAN :
       req' = IF req.path = RootPath
              THEN Reply("tpl", IF ok THEN 200 ELSE 500, NoStore, << >>)
              ELSE Reply("fragmentTpl", 200, NoStore, << >>)
  /\ UNCHANGED << weatherCache, mu, disk, now, pc, fr, ticker, hpc, hres, hseen, g, sd >>

\* The response has been written; the next request can be looked at.
Respond ==
  /\ req.stage = "done"
  /\ req' = NoRequest
  /\ UNCHANGED << weatherCache, mu, disk, now, pc, fr, ticker, hpc, hres, hseen, g, sd >>

\* ------------------------------------------------------- environment
\* Time passes.
Advance ==
  /\ now < MaxTime
  /\ now' = now + 1
  /\ UNCHANGED << weatherCache, mu, disk, pc, fr, ticker, hpc, hres, hseen, g, sd, req >>

\* The process is killed at any point and started again: memory is lost,
\* the files stay as they are.
Crash ==
  /\ g.restarts < MaxRestarts
  /\ weatherCache' = ZeroCache
  /\ mu' = MuFree
  /\ pc' = BootPc
  /\ fr' = BootFr
  /\ ticker' = NoTicker
  /\ hpc' = BootHpc
  /\ hres' = BootHres
  /\ hseen' = BootHseen
  /\ g' = [g EXCEPT !.restarts = @ + 1, !.populated = FALSE,
                    !.committed = ZeroCache, !.installing = {},
                    !.cyc = NoCycle, !.fetched = FALSE, !.synced = FALSE,
                    !.loadRet = "none"]
  /\ sd' = NoShutdown
  /\ UNCHANGED << disk, now, req >>

\* The steps of main, the updater, the ticker and the clock.
Process ==
  \/ LoadRead \/ LoadLock \/ LoadLocked \/ LoadSet \/ LoadUnlock
  \/ MainCheck \/ AgeRLock \/ AgeRead \/ AgeRUnlock
  \/ Spawn \/ Listen
  \/ NewTicker \/ TickerFire \/ UpdaterTick
  \/ \E t \in Threads :
       \/ FetchDo(t) \/ FetchSleep(t) \/ FetchEnd(t)
       \/ UpdCheck(t) \/ UpdLock(t) \/ UpdLocked(t) \/ UpdSet(t) \/ UpdUnlock(t)
       \/ SaveRLock(t) \/ SavePrep(t) \/ SaveOpen(t) \/ SaveWrite(t)
       \/ SaveFlush(t) \/ SaveRename(t) \/ SaveRUnlock(t)
  \/ Advance

\* The request handlers.
Requests ==
  \E h \in Handlers :
    \/ HandlerCall(h) \/ HandlerRLock(h) \/ HandlerCheck(h)
    \/ HandlerReturn(h) \/ HandlerRUnlock(h)

\* One run of the process, serving requests.
Next == Process \/ Requests
Spec == Init /\ [][Next]_vars

\* The steps of thread t and of handler h once its request has arrived.
ThreadStep(t) ==
  \/ t = "main" /\ (\/ LoadRead \/ LoadLock \/ LoadLocked \/ LoadSet \/ LoadUnlock
                     \/ MainCheck \/ AgeRLock \/ AgeRead \/ AgeRUnlock
                     \/ Spawn \/ Listen)
  \/ t = "updater" /\ (NewTicker \/ UpdaterTick)
  \/ FetchDo(t) \/ FetchSleep(t) \/ FetchEnd(t)
  \/ UpdCheck(t) \/ UpdLock(t) \/ UpdLocked(t) \/ UpdSet(t) \/ UpdUnlock(t)
  \/ SaveRLock(t) \/ SavePrep(t) \/ SaveOpen(t) \/ SaveWrite(t)
  \/ SaveFlush(t) \/ SaveRename(t) \/ SaveRUnlock(t)
HandlerStep(h) ==
  HandlerRLock(h) \/ HandlerCheck(h) \/ HandlerReturn(h) \/ HandlerRUnlock(h)

\* The scheduling the Go runtime provides: a goroutine that can take a
\* step is run, and its calls to the network and the file system return.
\* Requests need not arrive and time need not pass.
FairLock ==
  /\ \A t \in Threads : WF_vars(ThreadStep(t))
  /\ \A h \in Handlers : WF_vars(HandlerStep(h))

\* Runs under that scheduling, for what depends on the lock and not on
\* the values read: the process finds no cache file or a recent one, and
\* a GET that is answered with 200 brings one and the same report or a
\* body that is not JSON.
InitFair ==
  /\ Init
  /\ g.file0 \in {NoFile, File(Marshal(SavedBefore(StartTime - 1)))}
PlainReplies ==
  \A t \in Threads :
    fr'[t].body \in
      {NoBody,
       Body(TRUE, << Area(<< Val("Depok") >>) >>,
            << Cond(<< "3", "1" >>, << "7", "5" >>, << Val("Rain") >>) >>)}
NextFair == Next /\ PlainReplies
SpecFair == InitFair /\ [][NextFair]_vars /\ FairLock

\* One request after the other on its way through the router, while main
\* and the updater run as under SpecFair.
Route ==
  Request \/ ServeMux \/ HandlePprof \/ HandleStatic \/ HandleStatus \/ Respond
Reads == \E h \in Handlers : HandlerStep(h)
NextRoute == (Process /\ PlainReplies) \/ Route \/ Reads
SpecRoute == InitFair /\ [][NextRoute]_vars

\* The signal goroutine, the end of main and the stop of the updater.
Shutdown ==
  \/ ListenFails \/ SigReceive \/ SigCancel \/ SigShutdown \/ DrainTimeout
  \/ SigDrainEnd \/ ServeReturns \/ MainReturn \/ UpdaterStop
  \/ PprofCall \/ PprofDone

\* One run of the process from its start to its exit on a signal. The
\* requests in flight are those for /pprof; the handlers that read the
\* cache are left out.
NextShutdown == Process \/ Shutdown
SpecShutdown == Init /\ [][NextShutdown]_vars

\* The same run under the scheduling the Go runtime provides: a goroutine
\* that can take a step (the signal goroutine, main) is run, and a timer
\* that was started expires. A signal need not come and the client of a
\* request need not take its response.
FairShutdown ==
  /\ WF_vars(SigCancel \/ SigShutdown \/ SigDrainEnd)
  /\ WF_vars(ServeReturns \/ MainReturn)
  /\ WF_vars(DrainTimeout)
SpecShutdownFair == SpecShutdown /\ FairShutdown

\* The process over several runs: it may be killed at any step and started
\* again on the files it left. The handlers, which touch neither the files
\* nor the cache's content, are left out.
NextRestart == Process \/ Crash
SpecRestart == Init /\ [][NextRestart]_vars

\* =========================================================== properties

\* What read() shows of a reading: the sentinel when its location is
\* empty, its four values otherwise.
Shown(r) ==
  IF r.location = ""
  THEN [location |-> "Sleman", temperature |-> 0, condition |-> "loading...",
        humidity |-> 0]
  ELSE r

\* Whether two readings are the same: the four values and the instant of
\* Updated (the monotonic reading of a time.Time exists only inside the
\* process that called time.Now() and is no part of the timestamp).
SameReading(a, b) ==
  /\ Four(a) = Four(b)
  /\ a.Updated.wall = b.Updated.wall

\* C1: every read() that has evaluated its return values returns what
\* read() shows of one single reading among those the cache held while the
\* call ran: the one from before an update or the one the update installs,
\* never fields of both.
C1_NoTornRead ==
  \A h \in Handlers :
    hpc[h] = "runlock" => \E r \in hseen[h] : hres[h] = Shown(r)

\* A read() that ran across an update of a populated cache, while the other
\* handler was reading too, and returns the new reading, which differs from
\* the old one in every field.
C1_Witness ==
  \E h \in Handlers :
    /\ hpc[h] = "runlock"
    /\ Cardinality(hseen[h]) = 2
    /\ hres[h] = Four(weatherCache)
    /\ \E old \in hseen[h] :
         /\ old.location \notin {"", hres[h].location}
         /\ old.temperature # hres[h].temperature
         /\ old.condition # hres[h].condition
         /\ old.humidity # hres[h].humidity
    /\ \E other \in Handlers \ {h} : hpc[other] # "idle"

\* The GETs of a fetch log, in order.
Gets(log) == SelectSeq(log, LAMBDA e : e.ev = "GET")
Sleeps(log) == SelectSeq(log, LAMBDA e : e.ev = "sleep")

\* C3: in every fetch call the GETs and the sleeps alternate, starting with
\* a GET; no GET follows a 200; there are at most 3 GETs; the k-th sleep
\* lasts 2^(k-1) seconds (1, then 2) and follows a failed attempt k < 3;
\* and when the call returns, its last step was a GET (no sleep after a
\* success or after the third attempt) and it returns an error after three
\* failures, which then took exactly GET, 1s, GET, 2s, GET.
C3_RetryBackoff ==
  \A t \in Threads :
    LET log == fr[t].log
        gets == Gets(log)
        sleeps == Sleeps(log)
    IN  /\ \A i \in 1..Len(log) :
             log[i].ev = (IF i % 2 = 1 THEN "GET" ELSE "sleep")
        /\ Len(gets) <= 3
        /\ \A i \in 1..(Len(gets) - 1) : gets[i].n # 200
        /\ Len(sleeps) <= 2
        /\ (Len(sleeps) >= 1 => sleeps[1].n = 1)
        /\ (Len(sleeps) >= 2 => sleeps[2].n = 2)
        /\ pc[t] \in {"fetch_end", "upd_check"} =>
             /\ Len(log) >= 1
             /\ log[Len(log)].ev = "GET"
             /\ (gets[Len(gets)].n # 200 =>
                   /\ Len(gets) = 3
                   /\ sleeps = << [ev |-> "sleep", n |-> 1], [ev |-> "sleep", n |-> 2] >>)
        /\ pc[t] = "upd_check" /\ gets[Len(gets)].n # 200 => fr[t].res.err

\* A fetch that returns an error after three failed attempts.
C3_Witness ==
  \E t \in Threads :
    /\ pc[t] = "upd_check"
    /\ fr[t].res.err
    /\ Len(fr[t].log) = 5
    /\ \A i \in {1, 3, 5} : fr[t].log[i].ev = "GET" /\ fr[t].log[i].n # 200

\* C2: at every step of every run, also right after the process was killed
\* in the middle of saveWeatherCache, the file at the canonical path is the
\* one the first run found, or it is the complete serialization of a
\* reading that was in the cache when it was saved; what is cut short lies
\* at the temporary path only.
C2_CanonicalFileWhole ==
  LET f == disk[weatherCacheFile] IN
    \/ f = g.file0
    \/ /\ g.saved.ok
       /\ f.exists
       /\ ~Unmarshal(f.data).err
       /\ SameReading(Unmarshal(f.data).cached, g.saved.c)

\* The process was killed while the temporary file was half written and
\* has started again: the temporary path holds a cut-off file, the
\* canonical path a file saved earlier.
C2_Witness ==
  /\ g.restarts >= 1
  /\ pc["main"] = "load"
  /\ disk[TempFile].exists
  /\ Unmarshal(disk[TempFile].data).err
  /\ Len(disk[TempFile].data) > 0
  /\ g.saved.ok
  /\ disk[weatherCacheFile] # g.file0

\* C4: from the moment a cycle's fetch returns an error until the next
\* cycle starts, the cache (Updated included) and the file at the canonical
\* path are what they were when the cycle started, and a read() made then
\* returns what it showed before.
C4_FailedFetchChangesNothing ==
  g.cyc.fetch = "err" =>
    /\ weatherCache = g.cyc.pre
    /\ disk[weatherCacheFile] = g.cyc.preFile
    /\ \A h \in Handlers :
         hpc[h] = "runlock" /\ hseen[h] = {Four(g.cyc.pre)}
           => hres[h] = Shown(Four(g.cyc.pre))

\* The updater's cycle failed on a populated cache with a saved file, and a
\* handler has read the cache since.
C4_Witness ==
  /\ g.cyc.fetch = "err"
  /\ g.cyc.phase = "err"
  /\ pc["updater"] = "select"
  /\ g.cyc.pre.Location # ""
  /\ g.cyc.preFile.exists
  /\ \E h \in Handlers : hpc[h] = "runlock" /\ hres[h] = Four(g.cyc.pre)

\* C5: once a fetch cycle has installed the four values it fetched, a
\* read() that overlaps no other update returns exactly those four values.
\* (Violated: a fetched location "" makes read() return the sentinel.)
C5_ReadReturnsFetched ==
  \A h \in Handlers :
    (g.fetched /\ hpc[h] = "runlock" /\ hseen[h] = {Four(g.committed)})
      => hres[h] = Four(g.committed)

\* C6: while the cache was never populated, a read() returns the sentinel,
\* and no writer holds or has asked for the lock, so that RLock() does not
\* wait, whatever the fetcher is doing.
C6_ReadOfEmptyCache ==
  ~g.populated =>
    /\ mu.writer = "" /\ mu.waiting = ""
    /\ \A h \in Handlers :
         hpc[h] = "runlock" =>
           hres[h] = [location |-> "Sleman", temperature |-> 0,
                      condition |-> "loading...", humidity |-> 0]

\* A read() of the never populated cache has returned while the updater is
\* in the middle of a fetch.
C6_Witness ==
  /\ ~g.populated
  /\ pc["updater"] \in {"fetch_do", "fetch_sleep"}
  /\ \E h \in Handlers : hpc[h] = "runlock"

\* C7: when loadWeatherCache has returned, it returned true and the cache
\* holds the reading decoded from the file if the file exists and parses,
\* and it returned false and the cache is as it was (empty) if the file is
\* missing or does not parse.
C7_LoadContract ==
  pc["main"] = "main_check" =>
    LET f == disk[weatherCacheFile]
        parses == f.exists /\ ~Unmarshal(f.data).err
    IN  IF parses
        THEN fr["main"].cacheLoaded /\ weatherCache = Unmarshal(f.data).cached
        ELSE ~fr["main"].cacheLoaded /\ weatherCache = ZeroCache

\* loadWeatherCache has returned false on a file that is cut short.
C7_Witness ==
  /\ pc["main"] = "main_check"
  /\ disk[weatherCacheFile].exists
  /\ Unmarshal(disk[weatherCacheFile].data).err
  /\ ~fr["main"].cacheLoaded
  /\ weatherCache = ZeroCache

\* C8: in a process started after a successful save, loadWeatherCache
\* returns true and the cache then holds the reading that was saved: the
\* same location, temperature, condition, humidity and instant of Updated.
C8_RoundTrip ==
  (pc["main"] = "main_check" /\ g.saved.ok) =>
    /\ fr["main"].cacheLoaded
    /\ SameReading(weatherCache, g.saved.c)

\* A restarted process has loaded what the previous one saved.
C8_Witness ==
  /\ pc["main"] = "main_check"
  /\ g.restarts >= 1
  /\ g.saved.ok
  /\ fr["main"].cacheLoaded
  /\ weatherCache.Location = g.saved.c.Location
  /\ g.saved.c.Updated.wall % 2 = 1

\* C9: from the successful rename of a cycle until the next cycle begins to
\* install a reading, the file at the canonical path parses and decodes to
\* the reading in memory, Updated included.
C9_FileMatchesCache ==
  g.synced =>
    LET f == disk[weatherCacheFile] IN
      /\ f.exists
      /\ ~Unmarshal(f.data).err
      /\ SameReading(Unmarshal(f.data).cached, weatherCache)

\* The updater's cycle has fetched and saved, and waits for the next tick.
C9_Witness ==
  /\ g.synced
  /\ g.cyc.phase = "ok"
  /\ pc["updater"] = "select"
  /\ weatherCache.Temperature # weatherCache.Humidity

\* C10: when a cycle has assigned Updated, it is later than the Updated the
\* cache held when the cycle started. (Violated: a loaded file may carry a
\* timestamp ahead of the clock.)
C10_UpdatedIncreases ==
  \A t \in Threads :
    pc[t] = "upd_unlock" => weatherCache.Updated.wall > g.cyc.pre.Updated.wall

\* The steps of one call of updateWeatherCache.
CycleLabels ==
  {"fetch_do", "fetch_sleep", "fetch_end", "upd_check", "upd_lock",
   "upd_lockwait", "upd_set", "upd_unlock", "save_rlock", "save_prep",
   "save_open", "save_write", "save_flush", "save_rename", "save_runlock"}
InCycle(t) == pc[t] \in CycleLabels

\* C11: the updater is Stopped only after its context was cancelled; the
\* step that ends a cycle of the updater, whether the fetch or the save
\* failed or not, leaves it at the head of its loop and leaves main where
\* it is (the process ends only when main returns from a failed listen or
\* from <-done); and at the head of the loop a tick that is waiting can be
\* taken, which starts the next cycle.
C11_StaysRunning ==
  /\ [](pc["updater"] = "stopped" => sd.cancelled)
  /\ []((pc["updater"] = "select" /\ ticker.buf) => ENABLED UpdaterTick)
  /\ [][(pc["updater"] \in CycleLabels /\ pc'["updater"] \notin CycleLabels) =>
          IF pc'["main"] = "exited"
          THEN pc["main"] = "listen" \/ sd.done # "empty"
          ELSE pc'["updater"] = "select" /\ pc'["main"] = pc["main"]]_vars

\* The updater has started a cycle after one whose fetch or save failed,
\* while its context was not cancelled.
C11_Witness ==
  /\ pc["updater"] = "fetch_do"
  /\ g.cyc.by = "updater"
  /\ g.cyc.after \in {"err", "unsaved"}
  /\ ~sd.cancelled

\* C12: once the cancellation is issued the updater reaches Stopped; so
\* when the process ends after a cancellation, it does not end with the
\* updater still inside a cycle. (Violated: main returns as soon as
\* Shutdown has returned and nothing waits for the updater.)
C12_StopsOnCancel ==
  (sd.exit.happened /\ sd.cancelled) => sd.exit.updater \notin CycleLabels

\* C13: the listener is closed (the drain begins) only after the updater's
\* context was cancelled; the drain runs under a context whose timer is
\* started, and once that timer has expired Shutdown can return whatever
\* the requests in flight do; and after a signal was received
\* gracefulShutdown returns and the process ends.
C13_BoundedShutdown ==
  /\ [](sd.inShutdown => sd.cancelled)
  /\ [](sd.sig = "drain" => sd.timer \in {"armed", "expired"})
  /\ []((sd.sig = "drain" /\ sd.timer = "expired") => ENABLED SigDrainEnd)
  /\ ((sd.sig = "cancel") ~> sd.exit.happened)

\* The process has ended after a drain that ran into its timeout, with a
\* request still being answered.
C13_Witness ==
  /\ sd.exit.happened
  /\ sd.cancelled
  /\ sd.done = "deadline"
  /\ sd.exit.active

\* The steps of main before it starts the updater and the server.
StartupLabels ==
  {"load", "load_lock", "load_lockwait", "load_set", "load_unlock",
   "main_check", "age_rlock", "age_read", "age_runlock", "spawn"}
    \cup CycleLabels

\* C14: at most one thread is inside a cycle; while main is still loading
\* or running the bootstrap cycle the updater does not exist and no request
\* is being handled; the cache is changed only by a step of the thread that
\* holds the write lock inside the load or a cycle, the files only by a
\* step of a thread inside a cycle's save; and a step of a request handler
\* changes neither the cache nor the files nor any thread's position or
\* locals (it makes no fetch).
C14_SingleWriter ==
  /\ [](Cardinality({t \in Threads : InCycle(t)}) <= 1)
  /\ [](pc["main"] \in StartupLabels =>
          /\ pc["updater"] = "off"
          /\ \A h \in Handlers : hpc[h] = "idle")
  /\ [][/\ weatherCache' # weatherCache =>
             \E t \in Threads :
               /\ pc[t] \in {"load_set", "upd_set"}
               /\ mu.writer = t
               /\ fr'[t] # fr[t]
        /\ disk' # disk =>
             \E t \in Threads :
               /\ pc[t] \in {"save_open", "save_write", "save_flush", "save_rename"}
               /\ pc'[t] # pc[t]
        /\ hpc' # hpc =>
             /\ weatherCache' = weatherCache
             /\ disk' = disk
             /\ pc' = pc
             /\ fr' = fr]_vars

\* The updater is installing a reading while a request handler waits for
\* the lock and the next tick is already waiting in the ticker's channel.
C14_Witness ==
  /\ pc["updater"] = "upd_set"
  /\ ticker.buf
  /\ \E h \in Handlers : hpc[h] = "rlock"

\* C15: main's staleness check computes the age as the clock minus the
\* loaded reading's Updated; main runs a cycle right after the load exactly
\* when the load returned false, and right after the staleness check
\* exactly when that age is greater than the update interval, and otherwise
\* goes on to start the updater; and a cycle is started by nothing else than
\* these two steps of main and the updater's taking a tick.
C15_BootstrapIffStale ==
  [][/\ (pc["main"] = "age_read" /\ pc'["main"] = "age_runlock") =>
          fr'["main"].cacheAge = now - weatherCache.Updated.wall
     /\ (pc["main"] = "main_check" /\ pc'["main"] # "main_check") =>
          IF g.loadRet = "false"
          THEN pc'["main"] = "fetch_do"
          ELSE pc'["main"] = "age_rlock"
     /\ (pc["main"] = "age_runlock" /\ pc'["main"] # "age_runlock") =>
          IF fr["main"].cacheAge > weatherUpdateInterval
          THEN pc'["main"] = "fetch_do"
          ELSE pc'["main"] = "spawn"
     /\ \A t \in Threads :
          (pc[t] \notin CycleLabels /\ pc'[t] \in CycleLabels) =>
            \/ t = "main" /\ pc[t] \in {"main_check", "age_runlock"}
            \/ t = "updater" /\ pc[t] = "select" /\ ticker.buf]_vars

\* main has loaded a reading, found it not stale and gone on without a
\* fetch; the reading is one interval old, the oldest that is not stale.
C15_Witness ==
  /\ pc["main"] = "spawn"
  /\ g.loadRet = "true"
  /\ g.cyc.by = ""
  /\ now - weatherCache.Updated.wall = weatherUpdateInterval

\* C16: from the failure of a cycle's save (MkdirAll, the write of the
\* temporary file or the rename) until the next cycle starts, the cache
\* holds the four values the cycle fetched, a read() that overlaps no
\* update returns exactly them, and the file at the canonical path is the
\* one from before the cycle. (Violated: a fetched location "" makes read()
\* return the sentinel, as in C5.)
C16_SaveFailureKeepsReading ==
  (g.cyc.phase = "unsaved" \/ \E t \in Threads : fr[t].saveErr) =>
    /\ Four(weatherCache) = FourOf(g.cyc.got)
    /\ disk[weatherCacheFile] = g.cyc.preFile
    /\ \A h \in Handlers :
         (hpc[h] = "runlock" /\ hseen[h] = {Four(g.committed)})
           => hres[h] = FourOf(g.cyc.got)

\* C17: every read() that a handler has begun returns, and every thread
\* that is about to take the write lock (in the load or in a cycle) gets it.
C17_NoLockStarvation ==
  /\ \A h \in Handlers : (hpc[h] = "rlock") ~> (hpc[h] = "idle")
  /\ \A t \in Threads :
       (pc[t] \in {"load_lock", "load_lockwait", "upd_lock", "upd_lockwait"})
         ~> (mu.writer = t)

\* A handler waits for the updater, which has asked for the write lock and
\* waits for another handler to finish reading.
C17_Witness ==
  /\ mu.waiting = "updater"
  /\ mu.hreaders # {}
  /\ \E h \in Handlers : hpc[h] = "rlock"

\* The decimal digits of a natural number.
DigitChar(d) == CHOOSE ch \in Digits : DigitVal(ch) = d
RECURSIVE Decimal(_)
Decimal(n) ==
  IF n < 10 THEN << DigitChar(n) >>
  ELSE Decimal(n \div 10) \o << DigitChar(n % 10) >>

RECURSIVE NoLeadingZeros(_)
NoLeadingZeros(s) ==
  IF Len(s) > 1 /\ Head(s) = "0" THEN NoLeadingZeros(Tail(s)) ELSE s

\* Whether the string s writes an integer: an optional sign, then digits.
IsInteger(s) ==
  LET body == IF s # << >> /\ Head(s) \in {"+", "-"} THEN Tail(s) ELSE s
  IN  body # << >> /\ \A i \in 1..Len(body) : body[i] \in Digits

\* Whether n is the integer that s writes (s being one, n above MinInt).
Denotes(s, n) ==
  LET neg == Head(s) = "-"
      body == IF Head(s) \in {"+", "-"} THEN Tail(s) ELSE s
      mag == NoLeadingZeros(body)
  IN  IF mag = << "0" >> THEN n = 0
      ELSE IF neg THEN n < 0 /\ n > MinInt /\ Decimal(0 - n) = mag
      ELSE n > 0 /\ Decimal(n) = mag

\* What C18 says of a numeric field.
ParsedOrZero(s, n) == IF IsInteger(s) THEN Denotes(s, n) ELSE n = 0

\* C18: when the last GET was answered with 200 and a body that parses and
\* has a current condition, the fetch returns no error; its location is the
\* first name of the first nearest area, or "Sleman" when there is none;
\* its condition is the first weather description, or "Unknown" when there
\* is none; its temperature and humidity are the integers their strings
\* write, or 0 when the string writes no integer. (Violated: for a string
\* that writes an integer out of the range of int the field is the largest
\* int.)
C18_FieldDefaults ==
  [][\A t \in Threads :
       (/\ pc[t] = "fetch_end" /\ pc'[t] = "upd_check"
        /\ ~fr[t].err /\ fr[t].status = 200
        /\ fr[t].body.valid /\ Len(fr[t].body.current_condition) >= 1) =>
         LET b == fr[t].body
             cc == b.current_condition[1]
             r == fr'[t].res
         IN  /\ ~r.err
             /\ r.loc = IF Len(b.nearest_area) > 0
                           /\ Len(b.nearest_area[1].areaName) > 0
                        THEN b.nearest_area[1].areaName[1].value
                        ELSE "Sleman"
             /\ r.cond = IF Len(cc.weatherDesc) > 0
                         THEN cc.weatherDesc[1].value
                         ELSE "Unknown"
             /\ ParsedOrZero(cc.temp_C, r.temp)
             /\ ParsedOrZero(cc.humidity, r.hum)]_vars

\* Whether the body of a 200 cannot be used: it does not parse, or it has
\* no current condition.
Unusable(body) == ~body.valid \/ Len(body.current_condition) = 0

\* C20: a GET answered with 200 is the last event of its fetch call, whose
\* loop is then over; the step that takes the 200 leaves the loop directly;
\* and when the body of that 200 does not parse or has no current
\* condition, the next step of the call returns an error, with no GET and
\* no sleep added, however few attempts were made.
C20_OkEndsLoop ==
  /\ [](\A t \in Threads : \A i \in 1..Len(fr[t].log) :
          fr[t].log[i] = EvGet(StatusOK) =>
            i = Len(fr[t].log) /\ pc[t] \in {"fetch_end", "upd_check"})
  /\ [][\A t \in Threads :
          /\ (pc[t] = "fetch_do" /\ fr'[t].log # fr[t].log
                /\ fr'[t].log[Len(fr'[t].log)] = EvGet(StatusOK)) =>
               pc'[t] = "fetch_end"
          /\ (pc[t] = "fetch_end" /\ pc'[t] # "fetch_end" /\ ~fr[t].err
                /\ fr[t].status = StatusOK /\ Unusable(fr[t].body)) =>
               /\ pc'[t] = "upd_check"
               /\ fr'[t].res.err
               /\ fr'[t].log = fr[t].log
               /\ now' = now]_vars

\* A fetch that returned an error after a single GET, which was answered
\* with 200.
C20_Witness ==
  \E t \in Threads :
    /\ pc[t] = "upd_check"
    /\ fr[t].res.err
    /\ fr[t].log = << EvGet(StatusOK) >>

\* C19 as stated: the response to every request whose path is not "/",
\* "/status-fragment" or "/pprof" is written by the static file server and
\* carries the long-lived Cache-Control header, and the response to "/"
\* and to "/status-fragment" carries Cache-Control: no-store. (Violated:
\* a path that is not clean is redirected by the router, and a path that
\* ends in .tmpl and "/index.html" are answered 404 with no header.)
C19_StaticOrNoStore ==
  req.stage = "done" =>
    IF req.path \in {RootPath, StatusFragmentPath} THEN req.cache = NoStore
    ELSE IF req.path = PprofPath THEN TRUE
    ELSE req.by = "fileServer" /\ req.cache = LongLived

\* C19, amended: the response to a request whose path is not clean is the
\* router's redirect (301) to the clean path, with no Cache-Control header.
\* Of the clean paths, "/pprof" is answered by handlePprof; a path that
\* ends in .tmpl and "/index.html" are answered 404 with no Cache-Control
\* header and do not reach the file server; "/" and "/status-fragment" are
\* answered with Cache-Control: no-store, also when the page template
\* fails; and every other path is handed to the static file server with
\* the long-lived header.
C19_RoutedByPath ==
  req.stage = "done" =>
    IF cleanPath(req.path) # req.path
    THEN /\ req.by = "redirect" /\ req.status = 301 /\ req.cache = ""
         /\ req.location = cleanPath(req.path)
    ELSE IF req.path = PprofPath THEN req.by = "pprof" /\ req.cache = ""
    ELSE IF req.path[Len(req.path)].ext = ".tmpl" \/ req.path = IndexPath
    THEN req.by = "NotFound" /\ req.status = 404 /\ req.cache = ""
    ELSE IF req.path = RootPath THEN req.by = "tpl" /\ req.cache = NoStore
    ELSE IF req.path = StatusFragmentPath
    THEN req.by = "fragmentTpl" /\ req.cache = NoStore
    ELSE req.by = "fileServer" /\ req.cache = LongLived

\* A stylesheet below a directory named like a route has been handed to
\* the file server.
C19_Witness ==
  /\ req.stage = "done"
  /\ req.path = << Seg("status-fragment", ""), Seg("style", ".css") >>
  /\ req.by = "fileServer"
  /\ req.cache = LongLived

\* C21: once cancelWeather() has been called the updater starts no cycle,
\* also when a tick is waiting in the ticker's channel at that moment: no
\* step takes the updater from its select into a cycle, and no step of a
\* cycle that started after the call changes the cache or a file.
\* (Violated: with ctx.Done() and ticker.C both ready the select may take
\* the tick, and the cycle then runs to its end unless the process exits
\* first.)
C21_NoCycleAfterCancel ==
  /\ [][(sd.cancelled /\ pc["updater"] = "select") =>
          pc'["updater"] \notin CycleLabels]_vars
  /\ [][(weatherCache' # weatherCache \/ disk' # disk) => ~g.cyc.late]_vars

\* Where a thread holds the write lock, where it holds a read lock, where
\* it has announced itself as a writer, and where it asks for the lock.
WriteHeldLabels == {"load_set", "load_unlock", "upd_set", "upd_unlock"}
ReadHeldLabels ==
  {"age_read", "age_runlock", "save_prep", "save_open", "save_write",
   "save_flush", "save_rename", "save_runlock"}
LockWaitLabels == {"load_lockwait", "upd_lockwait"}
LockAskLabels == {"load_lock", "upd_lock", "age_rlock", "save_rlock"}

\* Whether thread t, or handler h, waits for the lock and cannot have it.
ThreadBlocked(t) ==
  \/ pc[t] \in {"load_lock", "upd_lock"} /\ ~CanLockRequest(mu)
  \/ pc[t] \in LockWaitLabels /\ ~CanLock(mu, t)
  \/ pc[t] \in {"age_rlock", "save_rlock"} /\ ~CanRLock(mu)
HandlerBlocked(h) == hpc[h] = "rlock" /\ ~CanRLock(mu)

\* C22: the cache is assigned only by the thread that holds the write lock,
\* and then nobody holds a read lock; a thread that reads the cache (the
\* staleness check, the snapshot of the save) and a handler inside
\* getWeather's reads hold a read lock; the lock is held exactly inside
\* the sections between an acquisition and its release, so a thread or a
\* handler that asks for the lock holds none, and none is kept on any way
\* out; and whenever somebody waits for the lock, somebody who holds it or
\* has announced itself can take a step.
C22_LockDiscipline ==
  /\ mu.writer # "" => mu.hreaders = {} /\ mu.treaders = {} /\ mu.waiting = ""
  /\ \A t \in Threads :
       /\ mu.writer = t <=> pc[t] \in WriteHeldLabels
       /\ t \in mu.treaders <=> pc[t] \in ReadHeldLabels
       /\ mu.waiting = t <=> pc[t] \in LockWaitLabels
       /\ pc[t] \in LockAskLabels =>
            mu.writer # t /\ t \notin mu.treaders /\ mu.waiting # t
       /\ ThreadBlocked(t) =>
            \/ \E u \in Threads \ {t} :
                 /\ mu.writer = u \/ mu.waiting = u \/ u \in mu.treaders
                 /\ ENABLED ThreadStep(u)
            \/ \E k \in mu.hreaders : ENABLED HandlerStep(k)
  /\ \A h \in Handlers :
       /\ h \in mu.hreaders <=> hpc[h] \in {"check", "return", "runlock"}
       /\ HandlerBlocked(h) =>
            \E u \in Threads :
              /\ mu.writer = u \/ mu.waiting = u
              /\ \/ ENABLED ThreadStep(u)
                 \/ \E k \in mu.hreaders : ENABLED HandlerStep(k)

\* The updater is in the middle of its five assignments, holding the write
\* lock, while every handler waits in RLock.
C22_Witness ==
  /\ pc["updater"] = "upd_set"
  /\ fr["updater"].wi = 3
  /\ mu.writer = "updater"
  /\ \A h \in Handlers : HandlerBlocked(h)

====
